---- MODULE Spec2Model ----
(***************************************************************************)
(* Model of the LiDAR Processing Wizard: the schema-driven parameter form  *)
(* (utils/form_builder.py, gui/run_lasinfo_tab.py), the lasinfo command    *)
(* assembly and invocation (processing/run_lasinfo.py), the generic        *)
(* background Worker (utils/worker.py) and the tab that wires them         *)
(* together (gui/base_tab.py).                                             *)
(*                                                                         *)
(* Python strings that end up in the argument vector are modelled as       *)
(* sequences of one-character strings, so that "-" + name, str(value) and  *)
(* text.split() are computed rather than assumed.                          *)
(***************************************************************************)
EXTENDS Integers, Sequences, FiniteSets, TLC

VARIABLES
    schema,          \* the parameter groups, flattened in section order
    params_widgets,  \* LasInfoTab.params_widgets: <<[param, widget]>>
    dir_input,       \* BaseTab.dir_input text
    output_text,     \* BaseTab.output_text: the lines of the log pane
    progress_bar,    \* BaseTab.progress_bar value
    dialogs,         \* modal QMessageBox dialogs shown so far, per kind
    workers,         \* the Worker objects handed to the thread pool
    events,          \* signals queued for delivery on the UI thread
    pane_writes,     \* the threads that have mutated output_text
    lasinfo_on_path  \* whether the lasinfo executable can be launched

vars == <<schema, params_widgets, dir_input, output_text, progress_bar,
          dialogs, workers, events, pane_writes, lasinfo_on_path>>

-----------------------------------------------------------------------------
(* Bounds of the model *)

MaxText == 3        \* longest text typed into a line edit
MaxWorkers == 2     \* submissions accepted by one tab
MaxWarnings == 1    \* validation warnings shown
MaxOperations == 2  \* Workers started with an arbitrary callable

-----------------------------------------------------------------------------
(* Python strings as character sequences *)

None == [t |-> "None"]

lasinfo == <<"l", "a", "s", "i", "n", "f", "o">>
dash_i == <<"-", "i">>

set_bb == <<"s", "e", "t", "_", "b", "b">>
set_bounding_box ==
    <<"s", "e", "t", "_", "b", "o", "u", "n", "d", "i", "n", "g", "_", "b", "o", "x">>
set_creation_date ==
    <<"s", "e", "t", "_", "c", "r", "e", "a", "t", "i", "o", "n", "_", "d", "a", "t", "e">>
set_number_of_points_by_return ==
    <<"s", "e", "t", "_", "n", "u", "m", "b", "e", "r", "_", "o", "f", "_",
      "p", "o", "i", "n", "t", "s", "_", "b", "y", "_", "r", "e", "t", "u", "r", "n">>

\* the allow-list of multi-value parameters in collect_params
MultiValueParams ==
    {set_bb, set_bounding_box, set_creation_date, set_number_of_points_by_return}

Whitespace == {" "}

DigitChar(d) == <<"0", "1", "2", "3", "4", "5", "6", "7", "8", "9">>[d + 1]

RECURSIVE StrNat(_)
StrNat(n) ==
    IF n < 10 THEN <<DigitChar(n)>>
    ELSE StrNat(n \div 10) \o <<DigitChar(n % 10)>>

\* Python str() of the values a snapshot can hold
BoolValue(b) == [t |-> "bool", b |-> b]
IntValue(n) == [t |-> "int", n |-> n]
StrValue(s) == [t |-> "str", s |-> s]
ListValue(l) == [t |-> "list", l |-> l]

str(value) ==
    CASE value.t = "bool" ->
            IF value.b THEN <<"T", "r", "u", "e">> ELSE <<"F", "a", "l", "s", "e">>
      [] value.t = "int" ->
            IF value.n < 0 THEN <<"-">> \o StrNat(0 - value.n) ELSE StrNat(value.n)
      [] value.t = "str" -> value.s

\* Python str.split() without arguments: the maximal runs of non-whitespace
RECURSIVE SplitFrom(_, _, _)
SplitFrom(text, i, word) ==
    IF i > Len(text)
    THEN IF word = <<>> THEN <<>> ELSE <<word>>
    ELSE IF text[i] \in Whitespace
         THEN (IF word = <<>> THEN <<>> ELSE <<word>>) \o SplitFrom(text, i + 1, <<>>)
         ELSE SplitFrom(text, i + 1, Append(word, text[i]))

split(text) == SplitFrom(text, 1, <<>>)


-----------------------------------------------------------------------------
(* The parameter schema (the groups of processing/params_config.py) *)

Descriptor(param, type, default, min, max) ==
    [param |-> param, type |-> type, default |-> default, min |-> min, max |-> max]

CheckboxConfig(param, default) == Descriptor(param, "checkbox", default, 0, 0)
SpinboxConfig(param, min, max, default) == Descriptor(param, "spinbox", default, min, max)
LineeditConfig(param, default) == Descriptor(param, "lineedit", default, 0, 0)

cd == <<"c", "d">>
cores == <<"c", "o", "r", "e", "s">>
otxt == <<"o">>

\* dict.get(key, fallback) on a descriptor's 'default'
GetDefault(config, fallback) ==
    IF config.default = None THEN fallback ELSE config.default

-----------------------------------------------------------------------------
(* The controls built by FormBuilder *)

Widget(cls, checked, minimum, maximum, value, text) ==
    [cls |-> cls, checked |-> checked, minimum |-> minimum, maximum |-> maximum,
     value |-> value, text |-> text]

\* QSpinBox.setRange: an inverted range collapses onto the minimum
SetRange(w, min_val, max_val) ==
    LET hi == IF min_val < max_val THEN max_val ELSE min_val
        v == IF w.value < min_val THEN min_val ELSE IF w.value > hi THEN hi ELSE w.value
    IN [w EXCEPT !.minimum = min_val, !.maximum = hi, !.value = v]

\* QSpinBox.setValue: the value is clamped into the range
SetValue(w, val) ==
    [w EXCEPT !.value = IF val < w.minimum THEN w.minimum
                        ELSE IF val > w.maximum THEN w.maximum ELSE val]

QSpinBoxNew == Widget("QSpinBox", FALSE, 0, 99, 0, <<>>)

add_checkbox(default_value) == Widget("QCheckBox", default_value, 0, 0, 0, <<>>)

add_spinbox(min_val, max_val, default_val) ==
    LET spinbox == SetRange(QSpinBoxNew, min_val, max_val)
    IN IF default_val # None THEN SetValue(spinbox, default_val.n) ELSE spinbox

add_lineedit(default_value) == Widget("QLineEdit", FALSE, 0, 0, 0, default_value)

BuildWidget(config) ==
    CASE config.type = "checkbox" -> add_checkbox(GetDefault(config, BoolValue(FALSE)).b)
      [] config.type = "spinbox" -> add_spinbox(config.min, config.max, config.default)
      [] config.type = "lineedit" -> add_lineedit(GetDefault(config, StrValue(<<>>)).s)

\* LasInfoTab.add_parameters over every section: one control per descriptor
add_parameters(params) ==
    [i \in 1..Len(params) |-> [param |-> params[i].param, widget |-> BuildWidget(params[i])]]

-----------------------------------------------------------------------------
(* LasInfoTab.collect_params: the snapshot, an insertion-ordered mapping *)

Entry(param, value) == [param |-> param, value |-> value]

\* collect_params with a spinbox left out whenever it stands at its minimum
CollectOne_OmitAtMinimum(param, widget) ==
    CASE widget.cls = "QCheckBox" -> <<Entry(param, BoolValue(widget.checked))>>
      [] widget.cls = "QSpinBox" ->
            IF widget.value # widget.minimum
            THEN <<Entry(param, IntValue(widget.value))>>
            ELSE <<>>
      [] widget.cls = "QLineEdit" ->
            IF widget.text # <<>>
            THEN IF param \in MultiValueParams
                 THEN <<Entry(param, ListValue(split(widget.text)))>>
                 ELSE <<Entry(param, StrValue(widget.text))>>
            ELSE <<>>

CollectOne(param, widget) ==
    CASE widget.cls = "QCheckBox" -> <<Entry(param, BoolValue(widget.checked))>>
      [] widget.cls = "QSpinBox" ->
            IF widget.value # widget.minimum \/ widget.minimum # 1
            THEN <<Entry(param, IntValue(widget.value))>>
            ELSE <<>>
      [] widget.cls = "QLineEdit" ->
            IF widget.text # <<>>
            THEN IF param \in MultiValueParams
                 THEN <<Entry(param, ListValue(split(widget.text)))>>
                 ELSE <<Entry(param, StrValue(widget.text))>>
            ELSE <<>>

RECURSIVE CollectFrom(_, _)
CollectFrom(widgets, i) ==
    IF i > Len(widgets) THEN <<>>
    ELSE CollectOne(widgets[i].param, widgets[i].widget) \o CollectFrom(widgets, i + 1)

collect_params(widgets) == CollectFrom(widgets, 1)

-----------------------------------------------------------------------------
(* run_lasinfo: the argument vector *)

Flag(param) == <<"-">> \o param

RECURSIVE MapStr(_)
MapStr(l) == IF l = <<>> THEN <<>> ELSE <<str(StrValue(Head(l)))>> \o MapStr(Tail(l))

\* run_lasinfo's loop without the bare-flag case for booleans
CommandPart_NoBareFlag(param, value) ==
    IF value.t = "list"
    THEN <<Flag(param)>> \o MapStr(value.l)
    ELSE <<Flag(param), str(value)>>

CommandPart(param, value) ==
    IF value.t = "bool" /\ value.b
    THEN <<Flag(param)>>
    ELSE IF value.t = "list"
         THEN <<Flag(param)>> \o MapStr(value.l)
         ELSE <<Flag(param), str(value)>>

RECURSIVE CommandFrom(_, _)
CommandFrom(params, i) ==
    IF i > Len(params) THEN <<>>
    ELSE CommandPart(params[i].param, params[i].value) \o CommandFrom(params, i + 1)

BuildCommand(input_path, params) == <<lasinfo, dash_i, input_path>> \o CommandFrom(params, 1)

-----------------------------------------------------------------------------
(* The external process and run_lasinfo's outcome *)

\* what subprocess.run can observe of the child: it ran to an exit code and
\* wrote to its two streams, or the executable could not be launched at all
ProcessResult(returncode, stdout, stderr) ==
    [launched |-> TRUE, returncode |-> returncode, stdout |-> stdout, stderr |-> stderr]

NotLaunched == [launched |-> FALSE, returncode |-> 0, stdout |-> "", stderr |-> ""]

ProcessOutcomes(on_path) ==
    IF on_path
    THEN {ProcessResult(0, "points", "ok report"), ProcessResult(1, "", "bad input")}
    ELSE {NotLaunched}

Exc(type, returncode, cmd, output, stderr) ==
    [type |-> type, returncode |-> returncode, cmd |-> cmd, output |-> output,
     stderr |-> stderr]

CalledProcessError(returncode, cmd, output, stderr) ==
    Exc("CalledProcessError", returncode, cmd, output, stderr)

PlainExc(type) == Exc(type, 0, <<>>, "", "")

\* the classes caught by "except Exception"; SystemExit, KeyboardInterrupt and
\* GeneratorExit derive from BaseException only
ExceptionClasses ==
    {"Exception", "ValueError", "AttributeError", "FileNotFoundError", "CalledProcessError"}

IsException(e) == e.type \in ExceptionClasses

Returned(value, command) ==
    [raised |-> FALSE, value |-> value, exc |-> None, command |-> command]
Raised(e, command) ==
    [raised |-> TRUE, value |-> None, exc |-> e, command |-> command]

\* subprocess.run(command, stdout=PIPE, stderr=PIPE, text=True, check=True)
subprocess_run(command, outcome) ==
    IF ~outcome.launched
    THEN Raised(PlainExc("FileNotFoundError"), command)
    ELSE IF outcome.returncode # 0
         THEN Raised(CalledProcessError(outcome.returncode, command, outcome.stdout,
                                        outcome.stderr), command)
         ELSE Returned(outcome, command)

\* run_lasinfo returning the child's standard output
run_lasinfo_stdout(input_path, params, outcome) ==
    LET command == BuildCommand(input_path, params)
        result == subprocess_run(command, outcome)
    IN IF result.raised
       THEN result
       ELSE Returned(StrValue(result.value.stdout), command)

run_lasinfo(input_path, params, outcome) ==
    LET command == BuildCommand(input_path, params)
        result == subprocess_run(command, outcome)
    IN IF result.raised
       THEN result
       ELSE Returned(StrValue(result.value.stderr), command)

-----------------------------------------------------------------------------
(* Text written to the log pane *)

Line(prefix, body) == [prefix |-> prefix, body |-> body]

\* str(e): CalledProcessError.__str__ names the command and the exit status
StrExc(e) == [t |-> "str(e)", type |-> e.type, cmd |-> e.cmd, returncode |-> e.returncode]

\* traceback.format_exc(): the stack, then the exception's class and str(e)
format_exc(e) == [t |-> "traceback", last |-> StrExc(e)]

ErrorTuple(e, traceback_str) == [t |-> "tuple", e |-> e, traceback_str |-> traceback_str]

\* str() of the (e, traceback_str) tuple: repr(e) and repr(traceback_str)
StrTuple(error) ==
    [t |-> "str(tuple)",
     repr_e |-> [type |-> error.e.type, returncode |-> error.e.returncode,
                 cmd |-> error.e.cmd],
     repr_traceback |-> error.traceback_str]

-----------------------------------------------------------------------------
(* Worker (utils/worker.py) *)

\* a callable handed to Worker: has_name is whether it has a __name__
\* attribute (functions and bound methods do, functools.partial objects and
\* callable instances do not); body is what calling it does
Callable(has_name, body, raises) == [has_name |-> has_name, body |-> body, raises |-> raises]

LasInfoTab_run_process == Callable(TRUE, "run_process", "-")

Operations ==
    {Callable(h, "return", "-") : h \in BOOLEAN}
    \cup {Callable(h, "raise", c) : h \in BOOLEAN, c \in {"ValueError", "SystemExit"}}

ReturnValue == StrValue("Completed")

\* Worker.__init__: the worker waits in the thread pool with its run() not begun
Worker(fn, input_path, params, connected) ==
    [fn |-> fn, input_path |-> input_path, params |-> params, connected |-> connected,
     pc |-> "start", result |-> None, exc |-> None, command |-> <<>>, process |-> None,
     emitted |-> <<>>, escaped |-> None]

Signal(w, name, arg) == [w |-> w, name |-> name, arg |-> arg]

\* signal.emit(arg) on the worker thread: a connected slot of the tab lives on
\* the UI thread, so the call is queued on the UI thread's event loop
Emit(w, name, arg) ==
    /\ events' = IF workers[w].connected THEN Append(events, Signal(w, name, arg)) ELSE events

Emitted(w, name, arg) == Append(workers[w].emitted, Signal(w, name, arg))

\* Worker.run, lines 44-46: the logging call reads self.fn.__name__ inside the
\* try block, before progress(0) is emitted
RunBegin ==
    \E w \in 1..Len(workers) :
        /\ workers[w].pc = "start"
        /\ IF workers[w].fn.has_name
           THEN /\ Emit(w, "progress", IntValue(0))
                /\ workers' = [workers EXCEPT ![w].pc = "call",
                                              ![w].emitted = Emitted(w, "progress", IntValue(0))]
           ELSE /\ workers' = [workers EXCEPT ![w].pc = "except",
                                              ![w].exc = PlainExc("AttributeError")]
                /\ UNCHANGED events
        /\ UNCHANGED <<lasinfo_on_path, schema, params_widgets, dir_input, output_text,
                       progress_bar, dialogs,
                       pane_writes>>

\* the call's fault with progress(100) emitted after the try statement instead
\* of in a finally clause: a fault that is not caught leaves run() at once
AfterRaise_NoFinally(e) == IF IsException(e) THEN "except" ELSE "done"

\* where control goes when the call at line 47 raises e
AfterRaise(e) == IF IsException(e) THEN "except" ELSE "finally"

\* Worker.run, line 47, for a callable that returns or raises by itself
CallOperation ==
    \E w \in 1..Len(workers) :
        /\ workers[w].pc = "call"
        /\ workers[w].fn.body # "run_process"
        /\ IF workers[w].fn.body = "return"
           THEN workers' = [workers EXCEPT ![w].pc = "else", ![w].result = ReturnValue]
           ELSE LET e == PlainExc(workers[w].fn.raises)
                IN workers' = [workers EXCEPT ![w].pc = AfterRaise(e), ![w].exc = e]
        /\ UNCHANGED <<lasinfo_on_path, schema, params_widgets, dir_input, output_text,
                       progress_bar, dialogs,
                       events, pane_writes>>

\* self.output_text.append(...) executed by run_process, that is on the
\* worker's thread, without any synchronisation with the UI thread
WorkerAppend(line) ==
    /\ output_text' = Append(output_text, line)
    /\ pane_writes' = pane_writes \cup {"worker"}

\* Worker.run, line 47, for LasInfoTab.run_process (run_lasinfo_tab.py 98-115)
CallRunProcess ==
    \E w \in 1..Len(workers) :
        /\ workers[w].pc = "call"
        /\ workers[w].fn.body = "run_process"
        /\ \E outcome \in ProcessOutcomes(lasinfo_on_path) :
              LET r == run_lasinfo(workers[w].input_path, workers[w].params, outcome)
              IN IF r.raised
                 THEN /\ WorkerAppend(Line("An error occurred: ", StrExc(r.exc)))
                      /\ workers' = [workers EXCEPT ![w].pc = AfterRaise(r.exc),
                                                    ![w].exc = r.exc,
                                                    ![w].command = r.command,
                                                    ![w].process = outcome]
                 ELSE /\ WorkerAppend(Line("", r.value))
                      /\ workers' = [workers EXCEPT ![w].pc = "else",
                                                    ![w].result = r.value,
                                                    ![w].command = r.command,
                                                    ![w].process = outcome]
        /\ UNCHANGED <<lasinfo_on_path, schema, params_widgets, dir_input, progress_bar,
                       dialogs, events>>

\* Worker.run, lines 48-51
RunExcept ==
    \E w \in 1..Len(workers) :
        /\ workers[w].pc = "except"
        /\ LET error == ErrorTuple(workers[w].exc, format_exc(workers[w].exc))
           IN /\ Emit(w, "error", error)
              /\ workers' = [workers EXCEPT ![w].pc = "finally", ![w].exc = None,
                                            ![w].emitted = Emitted(w, "error", error)]
        /\ UNCHANGED <<lasinfo_on_path, schema, params_widgets, dir_input, output_text,
                       progress_bar, dialogs,
                       pane_writes>>

\* Worker.run, lines 52-53
RunElse ==
    \E w \in 1..Len(workers) :
        /\ workers[w].pc = "else"
        /\ Emit(w, "result", workers[w].result)
        /\ workers' = [workers EXCEPT ![w].pc = "finally",
                                      ![w].emitted = Emitted(w, "result", workers[w].result)]
        /\ UNCHANGED <<lasinfo_on_path, schema, params_widgets, dir_input, output_text,
                       progress_bar, dialogs,
                       pane_writes>>

\* Worker.run, lines 54-55: an exception the except clause did not catch
\* leaves run() once the finally block has run
RunFinally ==
    \E w \in 1..Len(workers) :
        /\ workers[w].pc = "finally"
        /\ Emit(w, "progress", IntValue(100))
        /\ workers' = [workers EXCEPT ![w].pc = "done", ![w].exc = None,
                                      ![w].escaped = workers[w].exc,
                                      ![w].emitted = Emitted(w, "progress", IntValue(100))]
        /\ UNCHANGED <<lasinfo_on_path, schema, params_widgets, dir_input, output_text,
                       progress_bar, dialogs,
                       pane_writes>>

-----------------------------------------------------------------------------
(* The tab (gui/base_tab.py, gui/run_lasinfo_tab.py) *)

Path == <<"/", "a">>

\* the default directory of the configuration: unset, or a path
DefaultDirectories == {<<>>, Path}

TextChars == {" ", "0"}
Texts == UNION {[1..n -> TextChars] : n \in 0..MaxText}

NoDialogs == [warning |-> 0, information |-> 0, critical |-> 0]

UiWrite == pane_writes \cup {"ui"}

\* BaseTab.execute_process: reset the indicator, clear the pane, start a Worker
\* whose result, error and progress signals are connected to the tab
execute_process(input_path, params) ==
    /\ progress_bar' = 0
    /\ output_text' = <<>>
    /\ pane_writes' = UiWrite
    /\ workers' = Append(workers, Worker(LasInfoTab_run_process, input_path, params, TRUE))
    /\ UNCHANGED <<dialogs, events>>

\* on_start without the check of the input path
on_start_unchecked ==
    /\ Len(workers) < MaxWorkers
    /\ execute_process(dir_input, collect_params(params_widgets))
    /\ UNCHANGED <<lasinfo_on_path, schema, params_widgets, dir_input>>

\* on_start with the start action refused while a task is in flight
on_start_serialized ==
    /\ LET input_path == dir_input
       IN IF input_path = <<>>
          THEN /\ dialogs.warning < MaxWarnings
               /\ dialogs' = [dialogs EXCEPT !.warning = @ + 1]
               /\ UNCHANGED <<output_text, progress_bar, workers, events, pane_writes>>
          ELSE /\ Len(workers) < MaxWorkers
               /\ \A w \in 1..Len(workers) : workers[w].pc = "done"
               /\ execute_process(input_path, collect_params(params_widgets))
    /\ UNCHANGED <<lasinfo_on_path, schema, params_widgets, dir_input>>

\* BaseTab.on_start: the start button's clicked handler
on_start ==
    /\ LET input_path == dir_input
       IN IF input_path = <<>>
          THEN /\ dialogs.warning < MaxWarnings
               /\ dialogs' = [dialogs EXCEPT !.warning = @ + 1]
               /\ UNCHANGED <<output_text, progress_bar, workers, events, pane_writes>>
          ELSE /\ Len(workers) < MaxWorkers
               /\ execute_process(input_path, collect_params(params_widgets))
    /\ UNCHANGED <<lasinfo_on_path, schema, params_widgets, dir_input>>

\* LasInfoTab.browse_directory: the file dialog returned a file
browse_directory ==
    /\ dir_input # Path
    /\ dir_input' = Path
    /\ UNCHANGED <<lasinfo_on_path, schema, params_widgets, output_text, progress_bar,
                   dialogs, workers,
                   events, pane_writes>>

\* BaseTab.on_process_complete, delivered on the UI thread
on_process_complete ==
    /\ events # <<>>
    /\ Head(events).name = "result"
    /\ output_text' = Append(output_text, Line("", Head(events).arg))
    /\ pane_writes' = UiWrite
    /\ progress_bar' = 100
    /\ dialogs' = [dialogs EXCEPT !.information = @ + 1]
    /\ events' = Tail(events)
    /\ UNCHANGED <<lasinfo_on_path, schema, params_widgets, dir_input, workers>>

\* on_process_error putting the error text in place of the pane's content
on_process_error_setText ==
    /\ events # <<>>
    /\ Head(events).name = "error"
    /\ output_text' = <<Line("Error: ", StrTuple(Head(events).arg))>>
    /\ pane_writes' = UiWrite
    /\ progress_bar' = 0
    /\ dialogs' = [dialogs EXCEPT !.critical = @ + 1]
    /\ events' = Tail(events)
    /\ UNCHANGED <<lasinfo_on_path, schema, params_widgets, dir_input, workers>>

\* BaseTab.on_process_error, delivered on the UI thread
on_process_error ==
    /\ events # <<>>
    /\ Head(events).name = "error"
    /\ output_text' = Append(output_text, Line("Error: ", StrTuple(Head(events).arg)))
    /\ pane_writes' = UiWrite
    /\ progress_bar' = 0
    /\ dialogs' = [dialogs EXCEPT !.critical = @ + 1]
    /\ events' = Tail(events)
    /\ UNCHANGED <<lasinfo_on_path, schema, params_widgets, dir_input, workers>>

\* BaseTab.update_progress, delivered on the UI thread
update_progress ==
    /\ events # <<>>
    /\ Head(events).name = "progress"
    /\ progress_bar' = Head(events).arg.n
    /\ events' = Tail(events)
    /\ UNCHANGED <<lasinfo_on_path, schema, params_widgets, dir_input, output_text, dialogs,
                   workers,
                   pane_writes>>

-----------------------------------------------------------------------------
(* The user's input on the controls of the form *)

SetWidget(i, widget) ==
    /\ params_widgets' = [params_widgets EXCEPT ![i].widget = widget]
    /\ UNCHANGED <<lasinfo_on_path, schema, dir_input, output_text, progress_bar, dialogs,
                   workers, events,
                   pane_writes>>

\* clicking a QCheckBox
Toggle ==
    \E i \in 1..Len(params_widgets) :
        /\ params_widgets[i].widget.cls = "QCheckBox"
        /\ SetWidget(i, [params_widgets[i].widget EXCEPT !.checked = ~@])

\* stepping or typing in a QSpinBox: any value of its range
Spin ==
    \E i \in 1..Len(params_widgets) :
        /\ params_widgets[i].widget.cls = "QSpinBox"
        /\ \E v \in params_widgets[i].widget.minimum..params_widgets[i].widget.maximum :
              /\ v # params_widgets[i].widget.value
              /\ SetWidget(i, SetValue(params_widgets[i].widget, v))

\* editing a QLineEdit
Type ==
    \E i \in 1..Len(params_widgets) :
        /\ params_widgets[i].widget.cls = "QLineEdit"
        /\ \E text \in Texts :
              /\ text # params_widgets[i].widget.text
              /\ SetWidget(i, [params_widgets[i].widget EXCEPT !.text = text])

-----------------------------------------------------------------------------
(* Specifications *)

CheckboxConfigs == {CheckboxConfig(cd, None), CheckboxConfig(cd, BoolValue(TRUE))}
SpinboxConfigs ==
    {SpinboxConfig(cores, 0, 1, None), SpinboxConfig(cores, 1, 2, None),
     SpinboxConfig(cores, 1, 2, IntValue(2)), SpinboxConfig(cores, 9, 10, None)}
LineeditConfigs == {LineeditConfig(otxt, StrValue(<<"0">>))}

\* schema groups of the form specification: groups of one descriptor, and a
\* few groups of two in each order of kinds
FormSchemas ==
    {<<c>> : c \in CheckboxConfigs \cup SpinboxConfigs \cup LineeditConfigs}
    \cup {<<CheckboxConfig(cd, None), SpinboxConfig(cores, 1, 2, None)>>,
          <<SpinboxConfig(cores, 0, 1, None), LineeditConfig(set_bb, None)>>,
          <<LineeditConfig(otxt, None), CheckboxConfig(cd, BoolValue(TRUE))>>}

TabSchemas == {<<CheckboxConfig(cd, None)>>}

InitWith(schemas, directories, on_path) ==
    /\ lasinfo_on_path \in on_path
    /\ schema \in schemas
    /\ params_widgets = add_parameters(schema)
    /\ dir_input \in directories
    /\ output_text = <<>>
    /\ progress_bar = 0
    /\ dialogs = NoDialogs
    /\ workers = <<>>
    /\ events = <<>>
    /\ pane_writes = {}

WorkerStep == RunBegin \/ CallRunProcess \/ RunExcept \/ RunElse \/ RunFinally

Deliver == on_process_complete \/ on_process_error \/ update_progress

Edit == Toggle \/ Spin \/ Type

\* the tab with its form left as built: submissions, their workers and the
\* delivery of their signals
Init == InitWith(TabSchemas, DefaultDirectories, {TRUE})
Next == on_start \/ browse_directory \/ WorkerStep \/ Deliver
Spec == Init /\ [][Next]_vars

\* the form: any schema group, any input on its controls, and the first
\* submission of the tab
InitForm == InitWith(FormSchemas, {Path}, BOOLEAN)
NextForm == Edit \/ (workers = <<>> /\ on_start) \/ WorkerStep \/ Deliver
SpecForm == InitForm /\ [][NextForm]_vars

\* Worker on its own: any callable, its signals not connected
Submit ==
    /\ Len(workers) < MaxOperations
    /\ \E fn \in Operations : workers' = Append(workers, Worker(fn, <<>>, <<>>, FALSE))
    /\ UNCHANGED <<lasinfo_on_path, schema, params_widgets, dir_input, output_text,
                       progress_bar, dialogs,
                   events, pane_writes>>

WorkerRun == RunBegin \/ CallOperation \/ RunExcept \/ RunElse \/ RunFinally

InitWorker == InitWith({<<>>}, {<<>>}, {TRUE})
NextWorker == Submit \/ WorkerRun
SpecWorker == InitWorker /\ [][NextWorker]_vars

-----------------------------------------------------------------------------
(* Claims about Worker.run, checked under SpecWorker *)

WorkerIds == 1..Len(workers)

Progress(w, n) == Signal(w, "progress", IntValue(n))

\* the operation of worker w was invoked and raised a fault of its own
OperationRaised(w) ==
    /\ workers[w].fn.body = "raise"
    /\ workers[w].fn.has_name
    /\ workers[w].pc \in {"except", "finally", "done"}

\* C1: a finished run has emitted exactly progress(0), then one of result or
\* error, then progress(100), whatever the callable was
C1_SignalSequence ==
    \A w \in WorkerIds :
        workers[w].pc = "done" =>
            /\ Len(workers[w].emitted) = 3
            /\ workers[w].emitted[1] = Progress(w, 0)
            /\ workers[w].emitted[2].name \in {"result", "error"}
            /\ workers[w].emitted[3] = Progress(w, 100)

\* C2: when the operation raised a fault, the finished run has emitted exactly
\* one error signal, carrying that fault and its trace, and no fault has left
\* run()
C2_FaultsBecomeErrorSignal ==
    \A w \in WorkerIds :
        (workers[w].pc = "done" /\ OperationRaised(w)) =>
            LET fault == PlainExc(workers[w].fn.raises)
                errors == {i \in 1..Len(workers[w].emitted) :
                              workers[w].emitted[i].name = "error"}
            IN /\ Cardinality(errors) = 1
               /\ \A i \in errors :
                     workers[w].emitted[i].arg = ErrorTuple(fault, format_exc(fault))
               /\ workers[w].escaped = None

-----------------------------------------------------------------------------
(* Claims about the form's snapshot, checked under SpecForm *)

WidgetIds == 1..Len(params_widgets)

\* the snapshot on_start would take of the form as it stands
Snapshot == collect_params(params_widgets)

Includes(snapshot, param) == \E j \in 1..Len(snapshot) : snapshot[j].param = param

IncludesValue(snapshot, param, value) ==
    \E j \in 1..Len(snapshot) : snapshot[j] = Entry(param, value)

IsFalse(value) == value.t = "bool" /\ ~value.b

\* some submission took its snapshot from the form as it stands
SnapshotTaken == \E w \in WorkerIds : workers[w].params = Snapshot

\* C3: a checkbox's parameter is in the snapshot a submission took iff the
\* checkbox is checked, and no parameter of the snapshot is mapped to false
C3_FlagIffChecked ==
    SnapshotTaken =>
        /\ \A i \in WidgetIds :
              params_widgets[i].widget.cls = "QCheckBox" =>
                  (Includes(Snapshot, params_widgets[i].param)
                      <=> params_widgets[i].widget.checked)
        /\ \A j \in 1..Len(Snapshot) : ~IsFalse(Snapshot[j].value)

C5_RoundTripEmpty ==
    (SnapshotTaken /\ params_widgets = add_parameters(schema)) => Snapshot = <<>>

-----------------------------------------------------------------------------
(* Claims about the argument vector, checked under SpecForm *)

\* run_lasinfo has been called by worker w
Invoked(w) == workers[w].pc \notin {"start", "call"}

False == <<"F", "a", "l", "s", "e">>

ExpectedPart(entry) ==
    CASE entry.value.t = "bool" /\ entry.value.b -> <<(<<"-">> \o entry.param)>>
      [] entry.value.t = "list" -> <<(<<"-">> \o entry.param)>> \o entry.value.l
      [] OTHER -> <<(<<"-">> \o entry.param), str(entry.value)>>

RECURSIVE ExpectedArgs(_)
ExpectedArgs(params) ==
    IF params = <<>> THEN <<>> ELSE ExpectedPart(Head(params)) \o ExpectedArgs(Tail(params))

\* C6: the argument vector is lasinfo, -i, the input path, then for each entry
\* of the snapshot in order: -name alone for true, -name and the elements for a
\* sequence, -name and the stringified value otherwise; nothing more for an
\* empty snapshot, and an integer is written in decimal
C6_ArgumentVector ==
    \A w \in WorkerIds :
        Invoked(w) =>
            /\ workers[w].command =
                  <<lasinfo, <<"-", "i">>, workers[w].input_path>>
                      \o ExpectedArgs(workers[w].params)
            /\ workers[w].params = <<>> => Len(workers[w].command) = 3
            /\ workers[w].params = <<Entry(cores, IntValue(10))>> =>
                  workers[w].command =
                      <<lasinfo, <<"-", "i">>, workers[w].input_path,
                        <<"-", "c", "o", "r", "e", "s">>, <<"1", "0">>>>

\* run_lasinfo was called with an integer and a sequence of two elements
C6_Witness ==
    \E w \in WorkerIds :
        /\ Invoked(w)
        /\ \E j \in 1..Len(workers[w].params) : workers[w].params[j].value.t = "int"
        /\ \E j \in 1..Len(workers[w].params) :
              /\ workers[w].params[j].value.t = "list"
              /\ Len(workers[w].params[j].value.l) = 2

\* C7: a parameter whose value is false puts nothing into the argument
\* vector, neither its flag nor the text False
C7_FalseNotEmitted ==
    \A w \in WorkerIds :
        Invoked(w) =>
            \A j \in 1..Len(workers[w].params) :
                IsFalse(workers[w].params[j].value) =>
                    \A k \in 1..Len(workers[w].command) :
                        /\ workers[w].command[k] # <<"-">> \o workers[w].params[j].param
                        /\ workers[w].command[k] # False

-----------------------------------------------------------------------------
(* Claims about the tab, checked under Spec *)

\* C8: when the child exits with a non-zero code run_lasinfo returns nothing
\* and raises an error that carries the child's stderr; when it exits with 0
\* run_lasinfo returns the child's stderr
C8_InvokerOutcome ==
    \A w \in WorkerIds :
        (Invoked(w) /\ workers[w].process.launched) =>
            IF workers[w].process.returncode # 0
            THEN /\ workers[w].result = None
                 /\ workers[w].pc # "else"
                 /\ workers[w].pc = "except" =>
                       /\ workers[w].exc.type = "CalledProcessError"
                       /\ workers[w].exc.stderr = workers[w].process.stderr
                 /\ \A i \in 1..Len(workers[w].emitted) :
                       workers[w].emitted[i].name = "error" =>
                           workers[w].emitted[i].arg.e.stderr = workers[w].process.stderr
            ELSE /\ workers[w].result = StrValue(workers[w].process.stderr)
                 /\ workers[w].pc # "except"
                 /\ workers[w].exc = None

\* one child has exited with 0 and another with a non-zero code
C8_Witness ==
    \E v, w \in WorkerIds :
        /\ workers[v].pc = "else" /\ workers[v].process.returncode = 0
        /\ workers[w].pc = "except" /\ workers[w].process.returncode # 0

\* C9: a start action fired with an empty input path shows a warning and
\* changes nothing else: no worker, no queued signal, the log pane and the
\* progress indicator as they were
C9_EmptyPathSubmitsNothing ==
    [][(dir_input = <<>> /\ on_start) =>
          /\ dialogs'.warning = dialogs.warning + 1
          /\ UNCHANGED <<workers, events, output_text, progress_bar, pane_writes>>]_vars

\* the warning has been shown and nothing was submitted
C9_Witness == dialogs.warning > 0 /\ workers = <<>> /\ dir_input = <<>>

\* C10: the log pane is mutated by the UI thread only
C10_PaneOnUiThreadOnly == pane_writes \subseteq {"ui"}

-----------------------------------------------------------------------------
(* Claims about the log pane and the progress indicator, checked under Spec *)

IsPrefix(s, t) == Len(s) <= Len(t) /\ \A i \in 1..Len(s) : s[i] = t[i]

\* C11, as claimed: the log content at an earlier state is a prefix of the log
\* content at every later state, start actions included
C11_AppendOnly == [][IsPrefix(output_text, output_text')]_vars

\* C11, amended: a start action that is accepted empties the log; every other
\* step (a rejected start, a step of a worker, the delivery of a signal) leaves
\* the earlier log content as a prefix of the later
C11_AppendOnlyBetweenStarts ==
    [][IF Len(workers') > Len(workers)
       THEN output_text' = <<>>
       ELSE IsPrefix(output_text, output_text')]_vars

\* two submissions were accepted, and two lines have been appended since the
\* second of them emptied the log
C11_Witness ==
    /\ Len(workers) = 2
    /\ workers[1].pc \notin {"start", "call"}
    /\ Len(output_text) >= 2

\* worker w has finished and every signal it emitted has been delivered
Settled(w) ==
    /\ workers[w].pc = "done"
    /\ \A i \in 1..Len(events) : events[i].w # w

Succeeded(w) == \E i \in 1..Len(workers[w].emitted) : workers[w].emitted[i].name = "result"

Failed(w) == \E i \in 1..Len(workers[w].emitted) : workers[w].emitted[i].name = "error"

\* C12: once every signal of the tab's single submission has been delivered,
\* the progress indicator shows 100 if the task succeeded and 0 if it failed
C12_FinalIndicator ==
    (Len(workers) = 1 /\ Settled(1)) =>
        /\ Succeeded(1) => progress_bar = 100
        /\ Failed(1) => progress_bar = 0

-----------------------------------------------------------------------------
(* Claims about the text of the log pane, checked under Spec *)

\* whether a rendered value carries the text of the child's stderr: the
\* returned report is the text itself, str(e) and repr(e) of an exception are
\* built from its command and exit status, a traceback ends with str(e)
RECURSIVE Shows(_, _)
Shows(body, text) ==
    CASE body.t = "str" -> body.s = text
      [] body.t = "str(e)" -> "stderr" \in DOMAIN body /\ body.stderr = text
      [] body.t = "traceback" -> Shows(body.last, text)
      [] body.t = "str(tuple)" ->
            \/ "stderr" \in DOMAIN body.repr_e /\ body.repr_e.stderr = text
            \/ Shows(body.repr_traceback, text)

\* the child of worker w ran and exited with a non-zero status
ToolFailed(w) ==
    /\ Invoked(w)
    /\ workers[w].process.launched
    /\ workers[w].process.returncode # 0

\* C13: when the external tool failed, the text appended to the log pane for
\* that run contains the tool's stderr text
C13_PaneShowsStderr ==
    (Len(workers) = 1 /\ Settled(1) /\ ToolFailed(1)) =>
        \E i \in 1..Len(output_text) :
            Shows(output_text[i].body, workers[1].process.stderr)

-----------------------------------------------------------------------------
(* A further claim about Worker.run, checked under SpecWorker *)

\* C14: the only progress values a run emits are 0 and 100, nothing is emitted
\* after progress(100), and every finished run has emitted progress(100) as
\* its last signal, however the operation ended
C14_ProgressHundredLast ==
    \A w \in WorkerIds :
        LET emitted == workers[w].emitted
        IN /\ \A i \in 1..Len(emitted) :
                 /\ emitted[i].name = "progress" => emitted[i].arg.n \in {0, 100}
                 /\ emitted[i] = Progress(w, 100) => i = Len(emitted)
           /\ workers[w].pc = "done" =>
                 /\ emitted # <<>>
                 /\ emitted[Len(emitted)] = Progress(w, 100)

\* one run has finished with its fault caught by the except clause, another
\* with a fault that left run()
C14_Witness ==
    /\ \E w \in WorkerIds : workers[w].pc = "done" /\ Failed(w)
    /\ \E w \in WorkerIds : workers[w].pc = "done" /\ workers[w].escaped # None

-----------------------------------------------------------------------------
(* Claims about concurrent submissions, checked under Spec *)

InFlight == \E w \in WorkerIds : workers[w].pc # "done"

\* C15: while a task is in flight the start action stays enabled, and firing
\* it with a path starts one more worker, not yet begun, next to the workers
\* already there, which it leaves as they are together with their queued
\* signals; it resets the log pane and the progress indicator
C15_StartWhileInFlight ==
    (InFlight /\ dir_input # <<>> /\ Len(workers) < MaxWorkers) =>
        ENABLED (/\ on_start
                 /\ Len(workers') = Len(workers) + 1
                 /\ workers'[Len(workers')].pc = "start"
                 /\ \A w \in WorkerIds : workers'[w] = workers[w]
                 /\ events' = events
                 /\ output_text' = <<>>
                 /\ progress_bar' = 0)

\* the second task succeeded and the first failed, and the pane, emptied by
\* the second submission, holds the second task's report followed by the
\* first task's error outcome
C15_Witness ==
    /\ Len(workers) = 2
    /\ Failed(1)
    /\ Succeeded(2)
    /\ \E i, j \in 1..Len(output_text) :
          /\ i < j
          /\ output_text[i] = Line("", workers[2].result)
          /\ output_text[j].prefix = "Error: "

-----------------------------------------------------------------------------
(* A further claim about the snapshot and the argument vector, checked under
   SpecForm *)

\* C16: every sequence value of a snapshot is non-empty, every multi-value
\* flag in the argument vector is followed by at least one value element, and
\* the text control of a multi-value parameter that holds only whitespace
\* contributes nothing to the snapshot
C16_SequencesNonEmpty ==
    /\ \A w \in WorkerIds :
          Invoked(w) =>
              /\ \A j \in 1..Len(workers[w].params) :
                    workers[w].params[j].value.t = "list" =>
                        workers[w].params[j].value.l # <<>>
              /\ \A k \in 1..Len(workers[w].command) :
                    workers[w].command[k] \in {<<"-">> \o p : p \in MultiValueParams} =>
                        /\ k < Len(workers[w].command)
                        /\ Head(workers[w].command[k + 1]) # "-"
    /\ SnapshotTaken =>
          \A i \in WidgetIds :
              (/\ params_widgets[i].widget.cls = "QLineEdit"
               /\ params_widgets[i].param \in MultiValueParams
               /\ split(params_widgets[i].widget.text) = <<>>) =>
                  ~Includes(Snapshot, params_widgets[i].param)

====
